---- MODULE Spec2Model ----
(***************************************************************************)
(* Model of render_plot.py (vasili): a linear script that loads a          *)
(* headerless ping log, splits it by kind, derives jitter and loss,        *)
(* plots the series and saves a PNG next to the input file.                *)
(*                                                                         *)
(* Strings the script takes apart (the filename) are sequences of          *)
(* one-character strings.  A data frame is a sequence of row records that  *)
(* carry the pandas index in the field idx.  The float NaN pandas uses     *)
(* for an absent latency is the sentinel NaN; comparisons and arithmetic   *)
(* on it follow IEEE/pandas rules through Less, SeriesDiff and FillNa.     *)
(***************************************************************************)
EXTENDS Integers, Sequences, FiniteSets

VARIABLES
    argv,             \* sys.argv
    fileExists,       \* whether the path names a readable file
    content,          \* the rows of the file, as text fields
    pc,               \* position of the script
    globals,          \* names bound so far in the module namespace
    filename,
    df, internet, gateway, internet_ok, gateway_ok, net_loss, gw_loss,
    plots,            \* calls made to plt.plot / plt.scatter, in order
    y_loss_level,
    title, legend,    \* figure decorations
    output_filename,
    saved,            \* paths written by plt.savefig
    stdout,           \* lines printed
    raised,           \* the exception that ended the run, or "none"
    exitCode          \* process exit status, -1 while running

vars == <<argv, fileExists, content, pc, globals, filename, df, internet,
          gateway, internet_ok, gateway_ok, net_loss, gw_loss, plots,
          y_loss_level, title, legend, output_filename, saved, stdout,
          raised, exitCode>>

-----------------------------------------------------------------------------
(* Bounds of the model *)

MaxRows == 3
MaxParts == 3

-----------------------------------------------------------------------------
(* Values *)

NaN == -1

Less(a, b) == a # NaN /\ b # NaN /\ a < b

Running == -1

SeqRange(s) == {s[i] : i \in 1..Len(s)}

RECURSIVE Concat(_)
Concat(ss) == IF ss = <<>> THEN <<>> ELSE Head(ss) \o Concat(Tail(ss))

SeqsUpTo(S, n) == UNION {[1..k -> S] : k \in 0..n}

-----------------------------------------------------------------------------
(* Filenames *)

DefaultFilename ==
    <<"v", "a", "s", "i", "l", "i", "_", "l", "o", "g", ".", "c", "s", "v">>

CsvSuffix == <<".", "c", "s", "v">>
PngSuffix == <<".", "p", "n", "g">>

StartsWith(s, p) == Len(s) >= Len(p) /\ SubSeq(s, 1, Len(p)) = p

EndsWith(s, p) ==
    Len(s) >= Len(p) /\ SubSeq(s, Len(s) - Len(p) + 1, Len(s)) = p

\* str.replace(old, new): every non-overlapping occurrence, left to right
RECURSIVE StrReplace(_, _, _)
StrReplace(s, old, new) ==
    IF s = <<>> THEN <<>>
    ELSE IF StartsWith(s, old)
         THEN new \o StrReplace(SubSeq(s, Len(old) + 1, Len(s)), old, new)
         ELSE <<Head(s)>> \o StrReplace(Tail(s), old, new)

OutputFilenameNoAppend(f) == StrReplace(f, CsvSuffix, PngSuffix)

OutputFilename(f) ==
    LET replaced == StrReplace(f, CsvSuffix, PngSuffix)
    IN  IF replaced = f THEN replaced \o PngSuffix ELSE replaced

NameParts ==
    { <<"l", "o", "g">>, CsvSuffix, <<".", "c">>, <<"s", "v">>,
      PngSuffix, <<".", "t", "x", "t">> }

FileNames == {Concat(ps) : ps \in SeqsUpTo(NameParts, MaxParts)}

-----------------------------------------------------------------------------
(* The log file: rows of five text fields, no header *)

Internet == "Internet"
Gateway == "Gateway"

TargetOf(kind) == IF kind = Internet THEN "8.8.8.8" ELSE "192.168.1.1"

\* Type, Latency and Status of the rows the model feeds the script.  A row
\* of a kind the script does not match ("Router"), a status it does not
\* match ("ERR") and an OK row without a latency are among them.
Payloads ==
    [Type : {Internet, Gateway}, Latency : {NaN, 20, 60, 80}, Status : {"OK"}]
    \cup [Type : {Internet, Gateway}, Latency : {NaN},
          Status : {"TIMEOUT", "ERR"}]
    \cup [Type : {"Router"}, Latency : {20}, Status : {"OK"}]
    \cup [Type : {"Router"}, Latency : {NaN}, Status : {"TIMEOUT"}]

\* The timestamp field is text: well formed, denoting instant t, or not.
GoodStamp(t) == [wellFormed |-> TRUE, t |-> t]
BadStamp == [wellFormed |-> FALSE, t |-> 0]

\* The file with payloads p, row i stamped with instant i, except that the
\* row badAt (if any) has a timestamp that does not parse.
MkFile(p, badAt) ==
    [i \in 1..Len(p) |->
        [Timestamp |-> IF i = badAt THEN BadStamp ELSE GoodStamp(i),
         Type      |-> p[i].Type,
         Target    |-> TargetOf(p[i].Type),
         Latency   |-> p[i].Latency,
         Status    |-> p[i].Status]]

SampleFiles ==
    { MkFile(<<[Type |-> Internet, Latency |-> 20, Status |-> "OK"]>>, 0),
      MkFile(<<[Type |-> Internet, Latency |-> 80, Status |-> "OK"],
               [Type |-> Gateway, Latency |-> NaN, Status |-> "TIMEOUT"]>>, 0),
      MkFile(<<[Type |-> Gateway, Latency |-> NaN, Status |-> "TIMEOUT"]>>, 1) }

-----------------------------------------------------------------------------
(* Loading *)

ReadCsvRaisesNever(exists) == FALSE

\* pd.read_csv raises FileNotFoundError when the path does not exist
ReadCsvRaises(exists) == ~exists

\* pd.read_csv with names=cols, header=None: one row per line, RangeIndex
ReadCsv(rows) ==
    [i \in 1..Len(rows) |->
        [idx       |-> i - 1,
         Timestamp |-> rows[i].Timestamp,
         Type      |-> rows[i].Type,
         Target    |-> rows[i].Target,
         Latency   |-> rows[i].Latency,
         Status    |-> rows[i].Status]]

ToDatetimeCoerces(frame) == FALSE

\* pd.to_datetime raises ValueError on a string that is no date
ToDatetimeRaises(frame) ==
    \E i \in 1..Len(frame) : ~frame[i].Timestamp.wellFormed

\* pd.to_datetime on the Timestamp column: text to instant
ToDatetime(frame) ==
    [i \in 1..Len(frame) |-> [frame[i] EXCEPT !.Timestamp = @.t]]

ExitNotFound == 1

\* an uncaught exception ends the interpreter with status 1
ExitUncaught == 1

ExitNormal == 0

-----------------------------------------------------------------------------
(* Splitting, jitter, loss *)

RowFilterNone(frame, column, value) == frame

\* frame[frame[column] == value]: boolean-mask selection keeps row order
RowFilter(frame, column, value) ==
    SelectSeq(frame, LAMBDA r : r[column] = value)

Column(frame, column) == [i \in 1..Len(frame) |-> frame[i][column]]

\* Series.diff(): NaN in the first place and wherever an operand is NaN
SeriesDiff(s) ==
    [i \in 1..Len(s) |->
        IF i = 1 \/ s[i] = NaN \/ s[i - 1] = NaN THEN [nan |-> TRUE, v |-> 0]
        ELSE [nan |-> FALSE, v |-> s[i] - s[i - 1]]]

SeriesAbsIdentity(s) == s

\* Series.abs(): NaN stays NaN
SeriesAbs(s) ==
    [i \in 1..Len(s) |->
        IF s[i].nan THEN s[i]
        ELSE [nan |-> FALSE, v |-> IF s[i].v < 0 THEN -s[i].v ELSE s[i].v]]

\* Series.fillna(x)
FillNa(s, x) == [i \in 1..Len(s) |-> IF s[i].nan THEN x ELSE s[i].v]

\* frame[frame["Status"] == "OK"].copy() with the Jitter column added
WithJitter(partition) ==
    LET ok == RowFilter(partition, "Status", "OK")
        jitter == FillNa(SeriesAbs(SeriesDiff(Column(ok, "Latency"))), 0)
    IN  [i \in 1..Len(ok) |->
            [idx       |-> ok[i].idx,
             Timestamp |-> ok[i].Timestamp,
             Type      |-> ok[i].Type,
             Target    |-> ok[i].Target,
             Latency   |-> ok[i].Latency,
             Status    |-> ok[i].Status,
             Jitter    |-> jitter[i]]]

LossOfNotOk(partition) == SelectSeq(partition, LAMBDA r : r.Status # "OK")

\* partition[partition["Status"] == "TIMEOUT"]
LossOf(partition) == RowFilter(partition, "Status", "TIMEOUT")

-----------------------------------------------------------------------------
(* Plotting *)

Label(name, arg) == [name |-> name, arg |-> arg]

Call(fn, label, x, y) == [fn |-> fn, label |-> label, x |-> x, y |-> y]

InternetLines(iok) ==
    << Call("plot",
            Label("Internet Ping",
                  IF iok # <<>> THEN iok[1].Target ELSE "?"),
            Column(iok, "Timestamp"), Column(iok, "Latency")),
       Call("plot", Label("Internet Jitter", ""),
            Column(iok, "Timestamp"), Column(iok, "Jitter")) >>

GatewayLines(gok) ==
    << Call("plot", Label("Gateway Ping", gok[1].Target),
            Column(gok, "Timestamp"), Column(gok, "Latency")),
       Call("plot", Label("Gateway Jitter", ""),
            Column(gok, "Timestamp"), Column(gok, "Jitter")) >>

LinePlotsUnguarded(iok, gok) ==
    InternetLines(iok)
    \o (IF gok # <<>> THEN GatewayLines(gok)
        ELSE << Call("plot", Label("Gateway Ping", "?"), <<>>, <<>>),
                Call("plot", Label("Gateway Jitter", ""), <<>>, <<>>) >>)

LinePlotsGuarded(iok, gok) ==
    (IF iok # <<>> THEN InternetLines(iok) ELSE <<>>)
    \o (IF gok # <<>> THEN GatewayLines(gok) ELSE <<>>)

\* the Internet lines always; the Gateway lines if gateway_ok is not empty
LinePlots(iok, gok) ==
    InternetLines(iok) \o (IF gok # <<>> THEN GatewayLines(gok) ELSE <<>>)

\* Series.max(): the largest value that is not NaN, NaN if there is none
SeriesMax(s) ==
    LET nums == {s[i] : i \in 1..Len(s)} \ {NaN}
    IN  IF nums = {} THEN NaN
        ELSE CHOOSE m \in nums : \A n \in nums : n <= m

YFallback == 100
YFloor == 50

YLossLevelOfBoth(iok, gok) ==
    LET level == IF iok \o gok # <<>>
                 THEN SeriesMax(Column(iok \o gok, "Latency")) ELSE YFallback
    IN  IF Less(level, YFloor) THEN YFloor ELSE level

YLossLevel(iok, gok) ==
    LET level == IF iok # <<>> THEN SeriesMax(Column(iok, "Latency"))
                 ELSE YFallback
    IN  IF Less(level, YFloor) THEN YFloor ELSE level

Repeat(v, n) == [i \in 1..n |-> v]

LossMarkers(nl, gl, level) ==
    (IF nl # <<>>
     THEN << Call("scatter", Label("Internet Loss", ""),
                  Column(nl, "Timestamp"), Repeat(level, Len(nl))) >>
     ELSE <<>>)
    \o (IF gl # <<>>
        THEN << Call("scatter", Label("Gateway Loss", ""),
                     Column(gl, "Timestamp"), Repeat(level, Len(gl))) >>
        ELSE <<>>)

\* plt.legend(): one entry per labelled artist, in drawing order
LegendOf(calls) == [i \in 1..Len(calls) |-> calls[i].label]

-----------------------------------------------------------------------------
(* The script, one action per numbered section *)

Bind(names) == globals \cup names

\* lines 6-8: the default filename, or the first argument
ParseArgs ==
    /\ pc = "args"
    /\ filename' = IF Len(argv) > 1 THEN argv[2] ELSE filename
    /\ pc' = "load"
    /\ UNCHANGED <<argv, fileExists, content, globals, df, internet, gateway,
                   internet_ok, gateway_ok, net_loss, gw_loss, plots,
                   y_loss_level, title, legend, output_filename, saved,
                   stdout, raised, exitCode>>

\* lines 10-21: read the file and parse the timestamps; a missing file is
\* reported and ends the run, any other exception propagates
Load ==
    /\ pc = "load"
    /\ IF ReadCsvRaises(fileExists)
       THEN /\ stdout' = Append(stdout,
                   [text |-> "Fehler: Datei nicht gefunden.", arg |-> filename])
            /\ raised' = "FileNotFoundError"
            /\ exitCode' = ExitNotFound
            /\ pc' = "exit"
            /\ UNCHANGED <<df, globals>>
       ELSE IF ToDatetimeRaises(ReadCsv(content))
       THEN /\ raised' = "ValueError"
            /\ exitCode' = ExitUncaught
            /\ pc' = "exit"
            /\ globals' = Bind({"cols", "df"})
            /\ df' = ReadCsv(content)
            /\ UNCHANGED stdout
       ELSE /\ df' = ToDatetime(ReadCsv(content))
            /\ globals' = Bind({"cols", "df"})
            /\ pc' = "split"
            /\ UNCHANGED <<stdout, raised, exitCode>>
    /\ UNCHANGED <<argv, fileExists, content, filename, internet, gateway,
                   internet_ok, gateway_ok, net_loss, gw_loss, plots,
                   y_loss_level, title, legend, output_filename, saved>>

\* lines 23-25
Split ==
    /\ pc = "split"
    /\ internet' = RowFilter(df, "Type", Internet)
    /\ gateway' = RowFilter(df, "Type", Gateway)
    /\ globals' = Bind({"internet", "gateway"})
    /\ pc' = "jitter"
    /\ UNCHANGED <<argv, fileExists, content, filename, df, internet_ok,
                   gateway_ok, net_loss, gw_loss, plots, y_loss_level, title,
                   legend, output_filename, saved, stdout, raised, exitCode>>

\* lines 27-33
Jitter ==
    /\ pc = "jitter"
    /\ internet_ok' = WithJitter(internet)
    /\ gateway_ok' = WithJitter(gateway)
    /\ globals' = Bind({"internet_ok", "gateway_ok"})
    /\ pc' = "loss"
    /\ UNCHANGED <<argv, fileExists, content, filename, df, internet, gateway,
                   net_loss, gw_loss, plots, y_loss_level, title, legend,
                   output_filename, saved, stdout, raised, exitCode>>

\* lines 35-37
Loss ==
    /\ pc = "loss"
    /\ net_loss' = LossOf(internet)
    /\ gw_loss' = LossOf(gateway)
    /\ globals' = Bind({"net_loss", "gw_loss"})
    /\ pc' = "lines"
    /\ UNCHANGED <<argv, fileExists, content, filename, df, internet, gateway,
                   internet_ok, gateway_ok, plots, y_loss_level, title,
                   legend, output_filename, saved, stdout, raised, exitCode>>

\* lines 39-56
PlotLines ==
    /\ pc = "lines"
    /\ plots' = plots \o LinePlots(internet_ok, gateway_ok)
    /\ pc' = "markers"
    /\ UNCHANGED <<argv, fileExists, content, globals, filename, df, internet,
                   gateway, internet_ok, gateway_ok, net_loss, gw_loss,
                   y_loss_level, title, legend, output_filename, saved,
                   stdout, raised, exitCode>>

\* lines 58-69
PlotLoss ==
    /\ pc = "markers"
    /\ y_loss_level' = YLossLevel(internet_ok, gateway_ok)
    /\ plots' = plots \o LossMarkers(net_loss, gw_loss, y_loss_level')
    /\ globals' = Bind({"y_loss_level"})
    /\ pc' = "decorate"
    /\ UNCHANGED <<argv, fileExists, content, filename, df, internet, gateway,
                   internet_ok, gateway_ok, net_loss, gw_loss, title, legend,
                   output_filename, saved, stdout, raised, exitCode>>

\* lines 71-78
Decorate ==
    /\ pc = "decorate"
    /\ title' = <<"VASSILI Network Analysis - ", filename>>
    /\ legend' = LegendOf(plots)
    /\ pc' = "save"
    /\ UNCHANGED <<argv, fileExists, content, globals, filename, df, internet,
                   gateway, internet_ok, gateway_ok, net_loss, gw_loss, plots,
                   y_loss_level, output_filename, saved, stdout, raised,
                   exitCode>>

\* lines 80-86; the script ends and the interpreter exits with status 0
Save ==
    /\ pc = "save"
    /\ output_filename' = OutputFilename(filename)
    /\ saved' = saved \cup {output_filename'}
    /\ stdout' = Append(stdout,
           [text |-> "Plot gespeichert als: ", arg |-> output_filename'])
    /\ globals' = Bind({"output_filename"})
    /\ exitCode' = ExitNormal
    /\ pc' = "exit"
    /\ UNCHANGED <<argv, fileExists, content, filename, df, internet, gateway,
                   internet_ok, gateway_ok, net_loss, gw_loss, plots,
                   y_loss_level, title, legend, raised>>

Next ==
    \/ ParseArgs
    \/ Load
    \/ Split
    \/ Jitter
    \/ Loss
    \/ PlotLines
    \/ PlotLoss
    \/ Decorate
    \/ Save

\* The state when the interpreter starts the script (line 6 has run).  A
\* path that names no file has no content.
InitWith(args) ==
    /\ argv \in args
    /\ fileExists \in BOOLEAN
    /\ pc = "args"
    /\ globals = {"filename"}
    /\ filename = DefaultFilename
    /\ df = <<>>
    /\ internet = <<>>
    /\ gateway = <<>>
    /\ internet_ok = <<>>
    /\ gateway_ok = <<>>
    /\ net_loss = <<>>
    /\ gw_loss = <<>>
    /\ plots = <<>>
    /\ y_loss_level = NaN
    /\ title = <<>>
    /\ legend = <<>>
    /\ output_filename = <<>>
    /\ saved = {}
    /\ stdout = <<>>
    /\ raised = "none"
    /\ exitCode = Running

Script == <<"r", "e", "n", "d", "e", "r", "_", "p", "l", "o", "t", ".", "p", "y">>

\* the log files, passed as log.csv: every file of at most MaxRows rows,
\* well formed or with a last row whose timestamp does not parse
Init ==
    /\ InitWith({<<Script, <<"l", "o", "g", ".", "c", "s", "v">>>>})
    /\ \E n \in 0..(IF fileExists THEN MaxRows ELSE 0) :
          \E p \in [1..n -> Payloads] :
             \E badAt \in {0, n} : content = MkFile(p, badAt)

Spec == Init /\ [][Next]_vars

\* the filenames, over a few sample files
InitNames ==
    /\ InitWith({<<Script>>} \cup {<<Script, f>> : f \in FileNames})
    /\ content \in (IF fileExists THEN SampleFiles ELSE {<<>>})

SpecNames == InitNames /\ [][Next]_vars

-----------------------------------------------------------------------------
(* Properties *)

Malformed(rows) == \E i \in 1..Len(rows) : ~rows[i].Timestamp.wellFormed

\* the pandas index grows along the frame: rows are in file order
InFileOrder(frame) ==
    \A i, j \in 1..Len(frame) : i < j => frame[i].idx < frame[j].idx

AbsDiff(a, b) == IF a < b THEN b - a ELSE a - b

(* C1: the image name is the input name with a trailing .csv replaced by
   .png, or with .png appended when the name does not end in .csv; only a
   trailing .csv is rewritten. *)
C1_OutputName ==
    "output_filename" \in globals =>
        output_filename =
            IF EndsWith(filename, CsvSuffix)
            THEN SubSeq(filename, 1, Len(filename) - Len(CsvSuffix))
                 \o PngSuffix
            ELSE filename \o PngSuffix

(* C10: the path the image is saved to is never the input path. *)
C10_NoOverwrite ==
    /\ filename \notin saved
    /\ "output_filename" \in globals => output_filename # filename

C10_Witness ==
    /\ pc = "exit"
    /\ ~EndsWith(filename, CsvSuffix)
    /\ StrReplace(filename, CsvSuffix, PngSuffix) = filename
    /\ saved = {filename \o PngSuffix}

(* C3: when the input path does not exist the run prints an error that
   carries the attempted filename, exits with code 1, and never plots or
   saves. *)
C3_MissingFile ==
    ~fileExists =>
        /\ pc \in {"args", "load", "exit"}
        /\ plots = <<>>
        /\ saved = {}
        /\ pc = "exit" =>
              /\ exitCode = 1
              /\ Len(stdout) = 1
              /\ stdout[1].text = "Fehler: Datei nicht gefunden."
              /\ stdout[1].arg = IF Len(argv) > 1 THEN argv[2]
                                 ELSE DefaultFilename

C3_Witness ==
    /\ pc = "exit"
    /\ ~fileExists
    /\ Len(argv) > 1
    /\ stdout # <<>>

(* C4, as claimed: the exit code is 1 when the input file is missing and 0
   in every other run, a run over unparseable rows included. *)
C4_ExitCodeAsClaimed ==
    pc = "exit" => exitCode = IF fileExists THEN 0 ELSE 1

(* C4, amended: the exit code is 1 when the input file is missing and 1 when
   the file exists but a timestamp does not parse (no image is saved then);
   it is 0 exactly in the runs that save the image. *)
C4_ExitCode ==
    pc = "exit" =>
        /\ exitCode = IF ~fileExists \/ Malformed(content) THEN 1 ELSE 0
        /\ exitCode = 0 <=> saved # {}

C4_Witness ==
    /\ pc = "exit"
    /\ fileExists
    /\ Malformed(content)
    /\ exitCode = 1
    /\ raised = "ValueError"

(* C6: every row is in exactly one of the Internet and Gateway partitions,
   the one of its kind, or in neither when its kind is not recognized, never
   in both; each partition keeps file order and holds only input rows. *)
C6_Partition ==
    "internet" \in globals =>
        /\ \A i \in 1..Len(df) :
              /\ df[i] \in SeqRange(internet) <=> df[i].Type = Internet
              /\ df[i] \in SeqRange(gateway) <=> df[i].Type = Gateway
              /\ ~(df[i] \in SeqRange(internet) /\ df[i] \in SeqRange(gateway))
        /\ SeqRange(internet) \subseteq SeqRange(df)
        /\ SeqRange(gateway) \subseteq SeqRange(df)
        /\ InFileOrder(internet)
        /\ InFileOrder(gateway)

C6_Witness ==
    /\ "internet" \in globals
    /\ Len(df) = 3
    /\ Len(internet) = 1
    /\ Len(gateway) = 1
    /\ df[2].Type = "Router"

(* C5: a sample of kind Internet or Gateway is in the loss set of its kind
   iff its status is TIMEOUT, never in the loss set of the other kind, and
   each loss set is in file order. *)
C5_Loss ==
    "net_loss" \in globals =>
        /\ \A i \in 1..Len(df) :
              /\ df[i].Type = Internet =>
                    /\ df[i] \in SeqRange(net_loss) <=> df[i].Status = "TIMEOUT"
                    /\ df[i] \notin SeqRange(gw_loss)
              /\ df[i].Type = Gateway =>
                    /\ df[i] \in SeqRange(gw_loss) <=> df[i].Status = "TIMEOUT"
                    /\ df[i] \notin SeqRange(net_loss)
        /\ InFileOrder(net_loss)
        /\ InFileOrder(gw_loss)

C5_Witness ==
    /\ "net_loss" \in globals
    /\ Len(net_loss) = 1
    /\ Len(gw_loss) = 1
    /\ \E i \in 1..Len(df) : df[i].Type = Internet /\ df[i].Status = "ERR"

OkOfKind(kind) ==
    SelectSeq(df, LAMBDA r : r.Type = kind /\ r.Status = "OK")

JitterAsClaimed(ok, part) ==
    /\ Len(part) = Len(ok)
    /\ \A i \in 1..Len(ok) :
          /\ part[i].idx = ok[i].idx
          /\ part[i].Jitter =
                IF i = 1 THEN 0
                ELSE AbsDiff(ok[i].Latency, ok[i - 1].Latency)

(* C2: for each kind whose OK samples all have a numeric latency, the jitter
   series has one value per OK sample of that kind, in order; the first is 0
   and each later one is |latency[i] - latency[i-1]| over the OK samples of
   that kind, whatever lies between them in the file. *)
C2_Jitter ==
    "internet_ok" \in globals =>
        /\ (\A i \in 1..Len(OkOfKind(Internet)) :
                OkOfKind(Internet)[i].Latency # NaN)
            => JitterAsClaimed(OkOfKind(Internet), internet_ok)
        /\ (\A i \in 1..Len(OkOfKind(Gateway)) :
                OkOfKind(Gateway)[i].Latency # NaN)
            => JitterAsClaimed(OkOfKind(Gateway), gateway_ok)

C2_Witness ==
    /\ "internet_ok" \in globals
    /\ Len(df) = 3
    /\ df[2].Type = Internet /\ df[2].Status = "TIMEOUT"
    /\ Len(internet_ok) = 2
    /\ internet_ok[1].Latency = 80 /\ internet_ok[2].Latency = 20
    /\ internet_ok[1].Jitter = 0 /\ internet_ok[2].Jitter = 60

InternetOkLatencies == SeqRange(Column(OkOfKind(Internet), "Latency")) \ {NaN}

MaxOf(S) == CHOOSE m \in S : \A n \in S : n <= m

Markers == {i \in 1..Len(plots) : plots[i].fn = "scatter"}

(* C7: the loss-marker level, used by the Internet and the Gateway markers
   alike, is the larger of 50 and the largest latency of the Internet OK
   samples when one with a numeric latency exists, and 100 when there is no
   Internet OK sample; it is never below 50. *)
C7_LossLevel ==
    "y_loss_level" \in globals =>
        /\ InternetOkLatencies # {} =>
              y_loss_level = IF MaxOf(InternetOkLatencies) < 50 THEN 50
                             ELSE MaxOf(InternetOkLatencies)
        /\ OkOfKind(Internet) = <<>> => y_loss_level = 100
        /\ ~Less(y_loss_level, 50)
        /\ \A i \in Markers :
              \A j \in 1..Len(plots[i].y) : plots[i].y[j] = y_loss_level

C7_Witness ==
    /\ "y_loss_level" \in globals
    /\ y_loss_level = 50
    /\ InternetOkLatencies = {20}
    /\ \E i \in 1..Len(gateway_ok) : gateway_ok[i].Latency = 80
    /\ \E i \in Markers : plots[i].label.name = "Gateway Loss"

SeriesNamed(names) == {i \in 1..Len(plots) : plots[i].label.name \in names}

GatewaySeries == {"Gateway Ping", "Gateway Jitter", "Gateway Loss"}

InternetSeries == {"Internet Ping", "Internet Jitter", "Internet Loss"}

(* C8: when the Gateway partition is empty the run draws no Gateway latency,
   jitter or loss-marker series, raises no error and saves the image. *)
C8_EmptyGateway ==
    ("gateway" \in globals /\ gateway = <<>>) =>
        /\ SeriesNamed(GatewaySeries) = {}
        /\ raised = "none"
        /\ pc = "exit" => exitCode = 0 /\ saved = {output_filename}

C8_Witness ==
    /\ pc = "exit"
    /\ "gateway" \in globals
    /\ gateway = <<>>
    /\ Len(internet) = 2
    /\ Len(plots) = 3

(* C9, as claimed: when the Internet partition is empty no Internet series
   (latency, jitter, loss markers) is passed to a plot call or gets a legend
   entry. *)
C9_EmptyInternetAsClaimed ==
    ("internet" \in globals /\ internet = <<>>) =>
        /\ SeriesNamed(InternetSeries) = {}
        /\ \A i \in 1..Len(legend) : legend[i].name \notin InternetSeries

(* C9, amended: when the Internet partition is empty the Internet loss
   markers are omitted, while the Internet latency and jitter series are
   still plotted, empty, as "Internet Ping (?)" and "Internet Jitter", and
   get their legend entries. *)
C9_EmptyInternet ==
    ("internet" \in globals /\ internet = <<>>) =>
        /\ SeriesNamed({"Internet Loss"}) = {}
        /\ \A i \in 1..Len(legend) : legend[i].name # "Internet Loss"
        /\ pc \in {"markers", "decorate", "save", "exit"} =>
              /\ Len(plots) >= 2
              /\ plots[1] = Call("plot", Label("Internet Ping", "?"),
                                 <<>>, <<>>)
              /\ plots[2] = Call("plot", Label("Internet Jitter", ""),
                                 <<>>, <<>>)
              /\ SeriesNamed(InternetSeries) = {1, 2}
        /\ pc \in {"save", "exit"} =>
              /\ Len(legend) >= 2
              /\ legend[1] = Label("Internet Ping", "?")
              /\ legend[2] = Label("Internet Jitter", "")

C9_Witness ==
    /\ pc = "exit"
    /\ "internet" \in globals
    /\ internet = <<>>
    /\ Len(gateway) = 2
    /\ Len(legend) >= 3

====
